---- MODULE Spec2Model ----
(***************************************************************************)
(* State-machine model of rdm6300/reader.py: the poll loop of BaseReader   *)
(* (event-driven mode, here with the handlers of the test suite's          *)
(* HeartbeatTestClass) and of Reader (single-shot read() with a timeout),  *)
(* driven by a transport that behaves like the test suite's MockSerial.    *)
(*                                                                         *)
(* Time is counted in ticks of one transport poll timeout (0.1 s).  The   *)
(* clock advances only inside serial.read(), the one blocking call of the  *)
(* loop; time.time() is an epoch time and so starts above 0.  Python's     *)
(* None is the empty tuple for a card and 0 for a time or a duration: the  *)
(* code tests these fields by truthiness, which None and 0 both fail.      *)
(***************************************************************************)
EXTENDS Integers, Sequences, FiniteSets, TLC

VARIABLES
    kind,                      \* "base": HeartbeatTestClass, "reader": Reader
    data, pos,                 \* MockSerial.data, MockSerial.pos
    now,                       \* time.time()
    pc,                        \* "idle": outside _read, "loop": inside its while loop
    quit_reader,               \* self.quit_reader
    last_read_at,              \* self.last_read_at (0: None)
    card,                      \* self.card (<<>>: None, <<r>>: CardData r)
    current_fragment,          \* self.current_fragment
    heartbeat_interval,        \* self.heartbeat_interval (0: None)
    successful_read_deadline,  \* self.successful_read_deadline (0: None)
    events,                    \* history: the handler calls made so far
    results,                   \* history: what each Reader.read() returned
    lastValidAt,               \* history: clock at the last valid fragment (0: none)
    callDeadline,              \* history: call start + timeout of the last read(timeout) (0: no timeout)
    stopTrace,                 \* history: the steps the stopping iteration ran, from the one that called stop()
    is_open,                   \* MockSerial.is_open
    serialCloses,              \* history: calls of serial.close()
    closeCalls                 \* history: calls of close()

vars == <<kind, data, pos, now, pc, quit_reader, last_read_at, card,
          current_fragment, heartbeat_interval, successful_read_deadline,
          events, results, lastValidAt, callDeadline, stopTrace,
          is_open, serialCloses, closeCalls>>

\* the transport's state and the count of close() calls
port == <<is_open, serialCloses, closeCalls>>

(***************************************************************************)
(* Bounds of the model.                                                    *)
(***************************************************************************)
MaxFrames == 2      \* packets put on the wire
MaxTime == 4        \* the clock stops advancing here
MaxLiveTime == 18   \* the same, where every poll advances the clock
MaxCloses == 2            \* close() calls counted
MaxPresenceTime == 7      \* clock limit of the long watch

(***************************************************************************)
(* Program constants.                                                      *)
(***************************************************************************)
RFID_STARTCODE == 2
RFID_ENDCODE == 3
FragmentLength == 12
PollTimeout == 1          \* Serial(timeout=0.1): one tick
HeartbeatInterval == 2    \* HeartbeatTestClass: heartbeat_interval=0.2
ReadTimeout == 2          \* r.read(timeout=0.2)

None == <<>>
Some(x) == <<x>>

(***************************************************************************)
(* Bit operations on naturals.                                             *)
(***************************************************************************)
RECURSIVE BitXor(_, _)
BitXor(a, b) ==
    IF a = 0 /\ b = 0 THEN 0
    ELSE (((a % 2) + (b % 2)) % 2) + 2 * BitXor(a \div 2, b \div 2)

RECURSIVE BitOr(_, _)
BitOr(a, b) ==
    IF a = 0 /\ b = 0 THEN 0
    ELSE (IF (a % 2) = 1 \/ (b % 2) = 1 THEN 1 ELSE 0) + 2 * BitOr(a \div 2, b \div 2)

(***************************************************************************)
(* int(received_bytes.decode('ascii'), 16) of one byte: the digit's value, *)
(* or -1 where Python raises ValueError (UnicodeDecodeError, for a byte    *)
(* >= 0x80, is a ValueError).                                              *)
(***************************************************************************)
\* faulty variant: only the decimal digits are taken as hex digits
HexValue_NoLetters(b) ==
    IF b >= 48 /\ b <= 57 THEN b - 48
    ELSE -1

HexValue(b) ==
    IF b >= 48 /\ b <= 57 THEN b - 48
    ELSE IF b >= 65 /\ b <= 70 THEN b - 55
    ELSE IF b >= 97 /\ b <= 102 THEN b - 87
    ELSE -1

(***************************************************************************)
(* BaseReader._fragment_to_int, with bits_per_item = 4.  "value" is the    *)
(* loop's variable: the value after the items before the last one.         *)
(***************************************************************************)
RECURSIVE fragment_to_int(_)
fragment_to_int(fragment) ==
    IF fragment = <<>> THEN 0
    ELSE CHOOSE result \in
             {BitOr(value * 16, fragment[Len(fragment)]) :
                 value \in {fragment_to_int(SubSeq(fragment, 1, Len(fragment) - 1))}} :
             TRUE

(***************************************************************************)
(* The checksum loop of BaseReader._parse_fragment: i = 0, 2, 4, 6, 8.     *)
(***************************************************************************)
\* faulty variant: the fifth byte is left out of the checksum
RECURSIVE calculatedChecksum_FourPairs(_, _)
calculatedChecksum_FourPairs(read_fragment, i) ==
    IF i >= 8 THEN 0
    ELSE CHOOSE result \in
             {BitXor(byte, rest) :
                 byte \in {BitOr(read_fragment[i + 1] * 16, read_fragment[i + 2])},
                 rest \in {calculatedChecksum_FourPairs(read_fragment, i + 2)}} :
             TRUE

RECURSIVE calculatedChecksum(_, _)
calculatedChecksum(read_fragment, i) ==
    IF i >= 10 THEN 0
    ELSE CHOOSE result \in
             {BitXor(byte, rest) :
                 byte \in {BitOr(read_fragment[i + 1] * 16, read_fragment[i + 2])},
                 rest \in {calculatedChecksum(read_fragment, i + 2)}} :
             TRUE

(***************************************************************************)
(* BaseReader._parse_fragment: None, or the CardData of 12 nibbles.        *)
(***************************************************************************)
\* faulty variant: only fragments that are too short are refused
parse_fragment_AtLeast12(read_fragment) ==
    IF Len(read_fragment) < FragmentLength THEN None
    ELSE LET receivedChecksum == fragment_to_int(SubSeq(read_fragment, 11, 12))
         IN  Some([value |-> fragment_to_int(SubSeq(read_fragment, 3, 10)),
                   checksum |-> receivedChecksum,
                   is_valid |-> receivedChecksum = calculatedChecksum(read_fragment, 0),
                   type |-> fragment_to_int(SubSeq(read_fragment, 1, 2))])

parse_fragment(read_fragment) ==
    IF Len(read_fragment) # FragmentLength THEN None
    ELSE LET receivedChecksum == fragment_to_int(SubSeq(read_fragment, 11, 12))
         IN  Some([value |-> fragment_to_int(SubSeq(read_fragment, 3, 10)),
                   checksum |-> receivedChecksum,
                   is_valid |-> receivedChecksum = calculatedChecksum(read_fragment, 0),
                   type |-> fragment_to_int(SubSeq(read_fragment, 1, 2))])

(***************************************************************************)
(* The object's fields that the handlers and the two per-fragment and      *)
(* per-iteration steps change, as one record "self".                       *)
(***************************************************************************)
Emit(self, type, c) ==
    [self EXCEPT !.events = Append(@, [type |-> type, card |-> c])]

\* BaseReader.stop
stop(self) == [self EXCEPT !.quit_reader = TRUE]

\* card_inserted: HeartbeatTestClass records the event, Reader stops the loop
card_inserted(self, c) ==
    IF kind = "reader" THEN stop(Emit(self, "inserted", c))
    ELSE Emit(self, "inserted", c)

\* card_removed: HeartbeatTestClass records the event and stops the loop
card_removed(self, c) ==
    IF kind = "base" THEN stop(Emit(self, "removed", c))
    ELSE Emit(self, "removed", c)

\* invalid_card: a warning is logged (Reader), the event is recorded
invalid_card(self, c) == Emit(self, "invalid", c)

\* faulty variant: Reader without its tick override
tick_Pass(self, t) == self

\* tick: BaseReader's does nothing, Reader's stops the loop past the deadline
tick(self, t) ==
    IF kind = "reader" /\ successful_read_deadline # 0 /\ t > successful_read_deadline
    THEN stop(self)
    ELSE self

(***************************************************************************)
(* Faulty variants of _process_fragment: no comparison with the current    *)
(* card; an invalid read treated as the loss of the card; no test of       *)
(* is_valid.                                                               *)
(***************************************************************************)
process_fragment_NoDedup(self, read_fragment, t) ==
    LET new_fragment == parse_fragment(read_fragment)
    IN  IF new_fragment = None THEN self
        ELSE IF ~new_fragment[1].is_valid
        THEN invalid_card([self EXCEPT !.last_read_at = t], new_fragment)
        ELSE card_inserted([self EXCEPT !.last_read_at = t, !.card = new_fragment],
                           new_fragment)

process_fragment_InvalidDedup(self, read_fragment, t) ==
    LET new_fragment == parse_fragment(read_fragment)
    IN  IF new_fragment = None THEN self
        ELSE IF ~new_fragment[1].is_valid
        THEN IF new_fragment # self.card
             THEN invalid_card([self EXCEPT !.last_read_at = t, !.card = new_fragment],
                               new_fragment)
             ELSE [self EXCEPT !.last_read_at = t]
        ELSE LET s == [self EXCEPT !.last_read_at = t]
             IN  IF new_fragment # s.card
                 THEN card_inserted([s EXCEPT !.card = new_fragment], new_fragment)
                 ELSE s

process_fragment_NoValidityTest(self, read_fragment, t) ==
    LET new_fragment == parse_fragment(read_fragment)
    IN  IF new_fragment = None THEN self
        ELSE LET s == [self EXCEPT !.last_read_at = t]
             IN  IF new_fragment # s.card
                 THEN card_inserted([s EXCEPT !.card = new_fragment], new_fragment)
                 ELSE s

(***************************************************************************)
(* BaseReader._process_fragment at clock t.                                *)
(***************************************************************************)
\* faulty variant: the record becomes the current card before its checksum
\* is looked at
process_fragment_CardBeforeValidity(self, read_fragment, t) ==
    LET new_fragment == parse_fragment(read_fragment)
    IN  IF new_fragment = None THEN self
        ELSE LET s == [self EXCEPT !.last_read_at = t, !.card = new_fragment]
             IN  IF ~new_fragment[1].is_valid
                 THEN invalid_card(s, new_fragment)
                 ELSE IF new_fragment # self.card
                 THEN card_inserted(s, new_fragment)
                 ELSE s

\* faulty variant: the card that is replaced is reported as removed first
process_fragment_RemovesReplaced(self, read_fragment, t) ==
    LET new_fragment == parse_fragment(read_fragment)
    IN  IF new_fragment = None THEN self
        ELSE IF ~new_fragment[1].is_valid
        THEN invalid_card([self EXCEPT !.last_read_at = t], new_fragment)
        ELSE LET s == [self EXCEPT !.last_read_at = t]
             IN  IF new_fragment # s.card
                 THEN card_inserted(
                          [(IF s.card # None THEN card_removed(s, s.card) ELSE s)
                              EXCEPT !.card = new_fragment],
                          new_fragment)
                 ELSE s

process_fragment(self, read_fragment, t) ==
    LET new_fragment == parse_fragment(read_fragment)
    IN  IF new_fragment = None THEN self
        ELSE IF ~new_fragment[1].is_valid
        THEN invalid_card([self EXCEPT !.last_read_at = t], new_fragment)
        ELSE LET s == [self EXCEPT !.last_read_at = t]
             IN  IF new_fragment # s.card
                 THEN card_inserted([s EXCEPT !.card = new_fragment], new_fragment)
                 ELSE s

(***************************************************************************)
(* BaseReader._process_heartbeat at clock t.                               *)
(***************************************************************************)
\* faulty variant: the card is removed as soon as the interval is reached
process_heartbeat_NotStrict(self, t) ==
    IF self.last_read_at # 0
       /\ heartbeat_interval # 0
       /\ t - self.last_read_at >= heartbeat_interval
    THEN [card_removed(self, self.card) EXCEPT !.card = None, !.last_read_at = 0]
    ELSE self

\* faulty variant: the interval is not tested for being set
process_heartbeat_IgnoresDisabled(self, t) ==
    IF self.last_read_at # 0
       /\ t - self.last_read_at > HeartbeatInterval
    THEN [card_removed(self, self.card) EXCEPT !.card = None, !.last_read_at = 0]
    ELSE self

process_heartbeat(self, t) ==
    IF self.last_read_at # 0
       /\ heartbeat_interval # 0
       /\ t - self.last_read_at > heartbeat_interval
    THEN [card_removed(self, self.card) EXCEPT !.card = None, !.last_read_at = 0]
    ELSE self

(***************************************************************************)
(* The byte branch of BaseReader._read: what one received byte does to     *)
(* the fragment buffer and, on a marker, to the session.                   *)
(***************************************************************************)
IsMarker(b) == b = RFID_STARTCODE \/ b = RFID_ENDCODE

\* faulty variant: the buffer is not emptied after a flush
on_byte_KeepsBuffer(self, frag, b, t) ==
    IF IsMarker(b)
    THEN IF Len(frag) > 0
         THEN [self |-> process_fragment(self, frag, t), frag |-> frag]
         ELSE [self |-> self, frag |-> frag]
    ELSE IF HexValue(b) >= 0
         THEN [self |-> self, frag |-> Append(frag, HexValue(b))]
         ELSE [self |-> self, frag |-> <<>>]

\* faulty variant: a byte that is no hex digit is skipped and the buffer kept
on_byte_GarbageIgnored(self, frag, b, t) ==
    IF IsMarker(b)
    THEN IF Len(frag) > 0
         THEN [self |-> process_fragment(self, frag, t), frag |-> <<>>]
         ELSE [self |-> self, frag |-> frag]
    ELSE IF HexValue(b) >= 0
         THEN [self |-> self, frag |-> Append(frag, HexValue(b))]
         ELSE [self |-> self, frag |-> frag]

\* faulty variant: a start marker drops what was buffered instead of
\* handing it on
on_byte_StartDiscards(self, frag, b, t) ==
    IF b = RFID_STARTCODE
    THEN [self |-> self, frag |-> <<>>]
    ELSE IF b = RFID_ENDCODE
    THEN IF Len(frag) > 0
         THEN [self |-> process_fragment(self, frag, t), frag |-> <<>>]
         ELSE [self |-> self, frag |-> frag]
    ELSE IF HexValue(b) >= 0
         THEN [self |-> self, frag |-> Append(frag, HexValue(b))]
         ELSE [self |-> self, frag |-> <<>>]

on_byte(self, frag, b, t) ==
    IF IsMarker(b)
    THEN IF Len(frag) > 0
         THEN [self |-> process_fragment(self, frag, t), frag |-> <<>>]
         ELSE [self |-> self, frag |-> frag]
    ELSE IF HexValue(b) >= 0
         THEN [self |-> self, frag |-> Append(frag, HexValue(b))]
         ELSE [self |-> self, frag |-> <<>>]

(***************************************************************************)
(* The wire: packets as test_reader.py's _assemble_bitstream frames them,  *)
(* and the damaged ones its test streams hold.                             *)
(***************************************************************************)
HexDigit(n) == IF n < 10 THEN 48 + n ELSE 55 + n

RECURSIVE Encode(_)
Encode(nibbles) ==
    IF nibbles = <<>> THEN <<>>
    ELSE <<HexDigit(Head(nibbles))>> \o Encode(Tail(nibbles))

Framed(nibbles) == <<RFID_STARTCODE>> \o Encode(nibbles) \o <<RFID_ENDCODE>>

CardA == <<6, 7, 0, 0, 3, 11, 5, 1, 12, 6, 12, 11>>        \* 67003B51C6CB
CardB == <<6, 7, 0, 0, 3, 11, 10, 8, 6, 12, 9, 8>>         \* 67003BA86C98
BadSum == <<6, 8, 0, 0, 3, 11, 5, 1, 12, 6, 12, 11>>       \* 68003B51C6CB
TooLong == BadSum \o <<13, 10>>                            \* 68003B51C6CBDA
NonAscii == 195                                            \* first byte of U+00DA in UTF-8

\* a packet hit by a non-ASCII byte
Garbled ==
    <<RFID_STARTCODE>> \o Encode(<<6, 7>>) \o <<NonAscii>> \o Encode(<<3, 11>>)
        \o <<RFID_ENDCODE>>

Packets ==
    { Framed(CardA), Framed(CardB), Framed(BadSum), Framed(TooLong), Garbled,
      Encode(CardA) }

\* a packet that lost its start marker, and the heartbeat test's stream
Headless == Encode(CardA) \o <<RFID_ENDCODE>>
Triple == Framed(CardA) \o Framed(CardA) \o Framed(CardA)

\* two packets run together: the markers between them were lost
RunTogether == Encode(CardA) \o Headless

RECURSIVE Wires(_)
Wires(n) ==
    IF n = 0 THEN {<<>>}
    ELSE LET w == Wires(n - 1) IN w \cup {x \o p : x \in w, p \in Packets}

(***************************************************************************)
(* Construction: BaseReader.__init__ / Reader.__init__ on a fresh port.    *)
(***************************************************************************)
InitObject ==
    /\ pos = 0
    /\ now = 1                 \* an epoch time: above 0
    /\ pc = "idle"
    /\ quit_reader = FALSE
    /\ last_read_at = 0
    /\ card = None
    /\ successful_read_deadline = 0
    /\ events = <<>>
    /\ results = <<>>
    /\ lastValidAt = 0
    /\ callDeadline = 0
    /\ stopTrace = <<>>
    /\ is_open = TRUE
    /\ serialCloses = 0
    /\ closeCalls = 0

InitFields ==
    /\ current_fragment = <<>>
    /\ InitObject

InitCommon ==
    /\ data \in Wires(MaxFrames)
    /\ InitFields

BaseWires ==
    Wires(MaxFrames) \cup {Headless, Triple, RunTogether, Framed(CardB) \o RunTogether}

InitBase ==
    /\ kind = "base"
    /\ heartbeat_interval = HeartbeatInterval
    /\ data \in BaseWires
    /\ InitFields

InitReader ==
    /\ kind = "reader"
    /\ heartbeat_interval = 0
    /\ InitCommon

(***************************************************************************)
(* BaseReader.start: enters _read, which clears the stop flag.             *)
(***************************************************************************)
\* faulty variant: the stop flag is left as it was found
Start_KeepsFlag ==
    /\ kind = "base"
    /\ pc = "idle"
    /\ pc' = "loop"
    /\ UNCHANGED <<kind, data, pos, now, quit_reader, last_read_at, card,
                   current_fragment, heartbeat_interval,
                   successful_read_deadline, events, results, lastValidAt,
                   callDeadline, stopTrace, port>>

Start ==
    /\ kind = "base"
    /\ pc = "idle"
    /\ pc' = "loop"
    /\ quit_reader' = FALSE
    /\ UNCHANGED <<kind, data, pos, now, last_read_at, card, current_fragment,
                   heartbeat_interval, successful_read_deadline, events, results,
                   lastValidAt, callDeadline, stopTrace, port>>

(***************************************************************************)
(* Reader.read(timeout), up to the first test of the loop condition.       *)
(***************************************************************************)
\* faulty variant: a deadline left by the previous call is kept
ReadDeadline_Stale(timeout) ==
    IF successful_read_deadline # 0 THEN successful_read_deadline
    ELSE IF timeout # 0 THEN now + timeout ELSE 0

ReadDeadline(timeout) == IF timeout # 0 THEN now + timeout ELSE 0

\* faulty variant: self.card is not reset on entry
Read_KeepsCard ==
    /\ kind = "reader"
    /\ pc = "idle"
    /\ \E timeout \in {0, ReadTimeout} :
        /\ successful_read_deadline' = ReadDeadline(timeout)
        /\ callDeadline' = IF timeout = 0 THEN 0 ELSE now + timeout
    /\ quit_reader' = FALSE
    /\ pc' = "loop"
    /\ UNCHANGED <<kind, data, pos, now, last_read_at, card, current_fragment,
                   heartbeat_interval, events, results, lastValidAt, stopTrace, port>>

ReadCall(timeouts) ==
    /\ kind = "reader"
    /\ pc = "idle"
    /\ \E timeout \in timeouts :
        /\ card' = None
        /\ successful_read_deadline' = ReadDeadline(timeout)
        /\ callDeadline' = IF timeout = 0 THEN 0 ELSE now + timeout
    /\ quit_reader' = FALSE
    /\ pc' = "loop"
    /\ UNCHANGED <<kind, data, pos, now, last_read_at, current_fragment,
                   heartbeat_interval, events, results, lastValidAt, stopTrace, port>>

\* read() and read(timeout=0.2)
Read == ReadCall({0, ReadTimeout})

\* read(timeout=0.2), called while the clock can still pass its deadline
ReadTimed == ReadCall({t \in {ReadTimeout} : now + t < MaxLiveTime})

(***************************************************************************)
(* One iteration of the while loop of BaseReader._read: serial.read(),     *)
(* the byte branch, _process_heartbeat, tick.  serial.read() returns the   *)
(* next byte at once or after a delay, or nothing after the poll timeout   *)
(* (MockSerial: at once when its data is exhausted).                       *)
(***************************************************************************)
Self == [quit_reader |-> quit_reader, last_read_at |-> last_read_at,
         card |-> card, events |-> events]

\* faulty variant: a stop requested by the fragment's handler leaves the
\* iteration at once
Finish_Preempted(s, frag, t, flushed) ==
    LET s1 == IF s.quit_reader THEN s ELSE process_heartbeat(s, t)
        s2 == IF s.quit_reader THEN s ELSE tick(s1, t)
        valid == /\ flushed # None
                 /\ parse_fragment(flushed[1]) # None
                 /\ parse_fragment(flushed[1])[1].is_valid
    IN  /\ quit_reader' = s2.quit_reader
        /\ last_read_at' = s2.last_read_at
        /\ card' = s2.card
        /\ events' = s2.events
        /\ current_fragment' = frag
        /\ now' = t
        /\ lastValidAt' = IF valid THEN t ELSE lastValidAt
        /\ stopTrace' = IF s.quit_reader THEN <<"fragment">>
                        ELSE IF s1.quit_reader THEN <<"heartbeat", "tick">>
                        ELSE IF s2.quit_reader THEN <<"tick">>
                        ELSE <<>>

Finish(s, frag, t, flushed) ==
    LET s1 == process_heartbeat(s, t)
        s2 == tick(s1, t)
        valid == /\ flushed # None
                 /\ parse_fragment(flushed[1]) # None
                 /\ parse_fragment(flushed[1])[1].is_valid
    IN  /\ quit_reader' = s2.quit_reader
        /\ last_read_at' = s2.last_read_at
        /\ card' = s2.card
        /\ events' = s2.events
        /\ current_fragment' = frag
        /\ now' = t
        /\ lastValidAt' = IF valid THEN t ELSE lastValidAt
        /\ stopTrace' = IF s.quit_reader THEN <<"fragment", "heartbeat", "tick">>
                        ELSE IF s1.quit_reader THEN <<"heartbeat", "tick">>
                        ELSE IF s2.quit_reader THEN <<"tick">>
                        ELSE <<>>

\* faulty variant: the heartbeat check runs before the byte is handled
Loop_HeartbeatFirst(delays, limit) ==
    /\ pc = "loop"
    /\ ~quit_reader
    /\ \/ /\ pos < Len(data)
          /\ \E dt \in delays :
              /\ now + dt <= limit
              /\ LET b == data[pos + 1]
                     r == on_byte(process_heartbeat(Self, now + dt),
                                  current_fragment, b, now + dt)
                 IN  Finish(r.self, r.frag, now + dt,
                            IF IsMarker(b) /\ Len(current_fragment) > 0
                            THEN Some(current_fragment) ELSE None)
          /\ pos' = pos + 1
       \/ /\ \E dt \in delays :
              /\ now + dt <= limit
              /\ dt = 0 => pos >= Len(data)
              /\ Finish(Self, current_fragment, now + dt, None)
          /\ pos' = pos
    /\ UNCHANGED <<kind, data, pc, heartbeat_interval, successful_read_deadline,
                   results, callDeadline, port>>

Loop(delays, limit) ==
    /\ pc = "loop"
    /\ ~quit_reader
    /\ \/ /\ pos < Len(data)
          /\ \E dt \in delays :
              /\ now + dt <= limit
              /\ LET b == data[pos + 1]
                     r == on_byte(Self, current_fragment, b, now + dt)
                 IN  Finish(r.self, r.frag, now + dt,
                            IF IsMarker(b) /\ Len(current_fragment) > 0
                            THEN Some(current_fragment) ELSE None)
          /\ pos' = pos + 1
       \/ /\ \E dt \in delays :
              /\ now + dt <= limit
              /\ dt = 0 => pos >= Len(data)
              /\ Finish(Self, current_fragment, now + dt, None)
          /\ pos' = pos
    /\ UNCHANGED <<kind, data, pc, heartbeat_interval, successful_read_deadline,
                   results, callDeadline, port>>

Iterate == Loop({0, PollTimeout}, MaxTime)

\* the same where the clock advances on every poll
IterateTicking == Loop({PollTimeout}, MaxLiveTime)

(***************************************************************************)
(* The loop condition fails: _read returns, and Reader.read returns        *)
(* self.card.                                                              *)
(***************************************************************************)
Return ==
    /\ pc = "loop"
    /\ quit_reader
    /\ pc' = "idle"
    /\ results' = IF kind = "reader" THEN Append(results, card) ELSE results
    /\ stopTrace' = <<>>
    /\ UNCHANGED <<kind, data, pos, now, quit_reader, last_read_at, card,
                   current_fragment, heartbeat_interval, successful_read_deadline,
                   events, lastValidAt, callDeadline, port>>

(***************************************************************************)
(* Time passes between two calls.                                          *)
(***************************************************************************)
Wait ==
    /\ pc = "idle"
    /\ now < MaxTime
    /\ now' = now + 1
    /\ UNCHANGED <<kind, data, pos, pc, quit_reader, last_read_at, card,
                   current_fragment, heartbeat_interval, successful_read_deadline,
                   events, results, lastValidAt, callDeadline, stopTrace, port>>

NextBase == Start \/ Iterate \/ Return \/ Wait
NextReader == Read \/ Iterate \/ Return \/ Wait

SpecBase == InitBase /\ [][NextBase]_vars
SpecReader == InitReader /\ [][NextReader]_vars

(***************************************************************************)
(* Reader.read(timeout) on a transport whose every poll advances the       *)
(* clock: a silent port, an invalid frame, a garbled frame, hex digits     *)
(* without markers, a valid frame.  The one thread of the program keeps    *)
(* running the loop and returns when it ends.                              *)
(***************************************************************************)
LiveWires == {<<>>, Framed(BadSum), Garbled, Encode(CardA), Framed(CardA)}

InitLive ==
    /\ kind = "reader"
    /\ heartbeat_interval = 0
    /\ data \in LiveWires
    /\ InitFields

NextLive == ReadTimed \/ IterateTicking \/ Return

SpecLive ==
    InitLive /\ [][NextLive]_vars /\ WF_vars(IterateTicking) /\ WF_vars(Return)

(***************************************************************************)
(* HeartbeatTestClass watched for long enough that a card can come, go     *)
(* and be followed by another packet that outlasts the interval too.       *)
(***************************************************************************)
PresenceWires ==
    {Framed(CardA) \o Framed(next) : next \in {CardA, CardB, BadSum}}
        \cup {Framed(BadSum) \o Framed(CardA)}

InitPresence ==
    /\ kind = "base"
    /\ heartbeat_interval = HeartbeatInterval
    /\ data \in PresenceWires
    /\ InitFields

IterateLong == Loop({0, PollTimeout}, MaxPresenceTime)

NextPresence == Start \/ IterateLong \/ Return

SpecPresence == InitPresence /\ [][NextPresence]_vars

(***************************************************************************)
(* Readers whose heartbeat is disabled (heartbeat_interval=None): Reader,  *)
(* and a BaseReader subclass that records its events and never stops.      *)
(***************************************************************************)
CardFrames == {Framed(CardA), Framed(CardB), Framed(BadSum)}

CardWires == {<<>>} \cup CardFrames \cup {x \o y : x, y \in CardFrames}

InitNoHeartbeat ==
    /\ kind \in {"base", "reader"}
    /\ heartbeat_interval = 0
    /\ data \in CardWires
    /\ InitFields

NextNoHeartbeat == Start \/ Read \/ Iterate \/ Return \/ Wait

SpecNoHeartbeat == InitNoHeartbeat /\ [][NextNoHeartbeat]_vars

(***************************************************************************)
(* Both kinds of reader side by side: HeartbeatTestClass, whose heartbeat  *)
(* check acts, and Reader, whose tick hook acts.                           *)
(***************************************************************************)
InitEither ==
    /\ kind \in {"base", "reader"}
    /\ heartbeat_interval = IF kind = "base" THEN HeartbeatInterval ELSE 0
    /\ data \in CardWires
    /\ InitFields

NextEither == Start \/ Read \/ Iterate \/ Return \/ Wait

SpecEither == InitEither /\ [][NextEither]_vars

(***************************************************************************)
(* The decoder on its own, as test_card_data_processor calls it: one       *)
(* _parse_fragment call on a fragment given as a list of nibbles.  The     *)
(* fragments are the test's CARD_DATA keys, every fragment one nibble away *)
(* from a valid card, and the wire forms of some records.  Values stay     *)
(* below 2^31, the largest the model checker's integers hold.              *)
(***************************************************************************)
Pow16(k) == 16 ^ k

\* the n-digit big-endian hex form of a number
Nibbles(x, n) == [i \in 1..n |-> (x \div Pow16(n - i)) % 16]

ByteBits == 0..7
Bit(x, i) == (x \div (2 ^ i)) % 2

\* XOR of a set-indexed family of bytes: bit i is the parity of the bytes
\* that have it
RECURSIVE SumBits(_, _)
SumBits(bits, i) ==
    IF i > 7 THEN 0
    ELSE (IF i \in bits THEN 2 ^ i ELSE 0) + SumBits(bits, i + 1)

XorOfBytes(bytes) ==
    SumBits({i \in ByteBits :
                Cardinality({j \in DOMAIN bytes : Bit(bytes[j], i) = 1}) % 2 = 1}, 0)

TypeBytes(type) == <<type>>
ValueBytes(value) == [i \in 1..4 |-> (value \div (256 ^ (4 - i))) % 256]

\* a record's 12 digits on the wire, checksum last
WireForm(type, value) ==
    Nibbles(type, 2) \o Nibbles(value, 8)
        \o Nibbles(XorOfBytes(TypeBytes(type) \o ValueBytes(value)), 2)

RecordTypes == {0, 103, 104, 255}
RecordValues == {0, 1, 3887558, 3909740, 3909735, 305419896, 2147483647}

CardC == <<6, 7, 0, 0, 3, 11, 10, 8, 6, 7, 9, 3>>          \* 67003BA86793

Fragments ==
    {<<>>, CardA, CardB, CardC, BadSum, TooLong}
        \cup {[CardA EXCEPT ![p[1]] = p[2]] :
                p \in {q \in (1..FragmentLength) \X (0..15) : q[1] = 3 => q[2] < 8}}
        \cup {WireForm(t, v) : t \in RecordTypes, v \in RecordValues}

InitDecode ==
    /\ kind = "decode"
    /\ heartbeat_interval = 0
    /\ data = <<>>
    /\ InitObject
    /\ current_fragment \in Fragments

\* data = reader._parse_fragment(fragment)
Decode ==
    /\ kind = "decode"
    /\ pc = "idle"
    /\ card' = parse_fragment(current_fragment)
    /\ pc' = "decoded"
    /\ UNCHANGED <<kind, data, pos, now, quit_reader, last_read_at,
                   current_fragment, heartbeat_interval,
                   successful_read_deadline, events, results, lastValidAt,
                   callDeadline, stopTrace, port>>

NextDecode == Decode

SpecDecode == InitDecode /\ [][NextDecode]_vars

(***************************************************************************)
(* BaseReader.close, called between two reads: the port is closed if it is *)
(* open, then stop() sets the stop flag.  MockSerial.close clears is_open; *)
(* serialCloses counts the calls that reach it.                            *)
(***************************************************************************)
\* faulty variant: the port is closed without looking at is_open
Close_Unguarded ==
    /\ pc = "idle"
    /\ closeCalls < MaxCloses
    /\ closeCalls' = closeCalls + 1
    /\ is_open' = FALSE
    /\ serialCloses' = serialCloses + 1
    /\ quit_reader' = TRUE
    /\ UNCHANGED <<kind, data, pos, now, pc, last_read_at, card,
                   current_fragment, heartbeat_interval,
                   successful_read_deadline, events, results, lastValidAt,
                   callDeadline, stopTrace>>

Close ==
    /\ pc = "idle"
    /\ closeCalls < MaxCloses
    /\ closeCalls' = closeCalls + 1
    /\ is_open' = FALSE
    /\ serialCloses' = IF is_open THEN serialCloses + 1 ELSE serialCloses
    /\ quit_reader' = TRUE
    /\ UNCHANGED <<kind, data, pos, now, pc, last_read_at, card,
                   current_fragment, heartbeat_interval,
                   successful_read_deadline, events, results, lastValidAt,
                   callDeadline, stopTrace>>

InitClose ==
    /\ kind = "reader"
    /\ heartbeat_interval = 0
    /\ data \in CardWires
    /\ InitFields

NextClose == Read \/ Iterate \/ Return \/ Close

SpecClose == InitClose /\ [][NextClose]_vars

(***************************************************************************)
(* Either kind of reader, closed at any time between two calls and         *)
(* entered again afterwards.                                               *)
(***************************************************************************)
NextReenter == Start \/ Read \/ Iterate \/ Return \/ Close

SpecReenter == InitEither /\ [][NextReenter]_vars

(***************************************************************************)
(* A Reader fed one record's packet: its 12 hex digits between the start   *)
(* and end markers, as _assemble_bitstream builds it.                      *)
(***************************************************************************)
InitRoundTrip ==
    /\ kind = "reader"
    /\ heartbeat_interval = 0
    /\ data \in {Framed(WireForm(t, v)) : t \in RecordTypes, v \in RecordValues}
    /\ InitFields

NextRoundTrip == Read \/ Iterate \/ Return

SpecRoundTrip == InitRoundTrip /\ [][NextRoundTrip]_vars

TypeOK ==
    /\ kind \in {"base", "reader"}
    /\ pos \in 0..Len(data)
    /\ now \in 1..MaxLiveTime
    /\ pc \in {"idle", "loop"}
    /\ quit_reader \in BOOLEAN
    /\ Len(card) <= 1

(***************************************************************************)
(* Vocabulary of the properties.                                           *)
(***************************************************************************)
\* the concatenation of a sequence of optional values: its non-empty ones
RECURSIVE Flatten(_)
Flatten(seq) == IF seq = <<>> THEN <<>> ELSE Head(seq) \o Flatten(Tail(seq))

IsValidCard(c) == c # None /\ c[1].is_valid

\* The card that ends at position m of a stream: stream[m] is a marker
\* preceded by exactly 12 hex digits (no 13th before them) whose checksum
\* matches.  None when there is no such card.
CardAt(stream, m) ==
    IF /\ IsMarker(stream[m])
       /\ m > FragmentLength
       /\ \A i \in (m - FragmentLength)..(m - 1) : HexValue(stream[i]) >= 0
       /\ (m - FragmentLength > 1) => HexValue(stream[m - FragmentLength - 1]) < 0
    THEN LET c == parse_fragment([i \in 1..FragmentLength |->
                                     HexValue(stream[m - FragmentLength - 1 + i])])
         IN  IF IsValidCard(c) THEN c ELSE None
    ELSE None

\* The valid cards of the first m bytes of a stream, in arrival order.
RECURSIVE ExpectedCards(_, _)
ExpectedCards(stream, m) ==
    IF m = 0 THEN <<>> ELSE ExpectedCards(stream, m - 1) \o CardAt(stream, m)

\* This step is a loop iteration whose byte is a marker that flushes a
\* non-empty buffer.
Flushes == /\ pc = "loop" /\ ~quit_reader
           /\ pos' = pos + 1
           /\ IsMarker(data[pos + 1])
           /\ Len(current_fragment) > 0

Flushed == parse_fragment(current_fragment)

IsEvent(i, type) == events[i].type = type

\* events i < j with nothing but invalid-card events between them
Adjacent(i, j) == i < j /\ \A k \in (i + 1)..(j - 1) : IsEvent(k, "invalid")

(***************************************************************************)
(* C1: event-driven mode deduplicates: a valid fragment equal to the       *)
(* current card emits no event, so two CardInserted events with no         *)
(* CardRemoved and no other card's CardInserted between them never carry   *)
(* the same record.                                                        *)
(***************************************************************************)
C1_Dedup ==
    /\ [](\A i, j \in 1..Len(events) :
            (Adjacent(i, j) /\ IsEvent(i, "inserted") /\ IsEvent(j, "inserted"))
            => events[i].card # events[j].card)
    /\ [][(Flushes /\ IsValidCard(Flushed) /\ Flushed = card) => events' = events]_vars

C1_Witness ==
    /\ data = Framed(CardA) \o Framed(CardA)
    /\ pos = Len(data)
    /\ events = <<[type |-> "inserted", card |-> parse_fragment(CardA)]>>

(***************************************************************************)
(* C2: with the heartbeat enabled, once more than heartbeat_interval has   *)
(* passed since the last valid fragment, the card is gone: current_card is *)
(* empty and exactly one CardRemoved, carrying that card, follows its      *)
(* CardInserted.                                                           *)
(***************************************************************************)
LastInserted ==
    CHOOSE i \in 1..Len(events) :
        IsEvent(i, "inserted") /\ \A j \in (i + 1)..Len(events) : ~IsEvent(j, "inserted")

C2_HeartbeatRemoval ==
    (lastValidAt # 0 /\ now - lastValidAt > heartbeat_interval)
    => /\ card = None
       /\ Cardinality({j \in (LastInserted + 1)..Len(events) : IsEvent(j, "removed")}) = 1
       /\ \A j \in (LastInserted + 1)..Len(events) :
            IsEvent(j, "removed") => events[j].card = events[LastInserted].card

(***************************************************************************)
(* C3: an iteration that flushes a 12-nibble fragment with a checksum      *)
(* mismatch does not refresh last_read_at (the heartbeat step of the same  *)
(* iteration may still clear it).                                          *)
(***************************************************************************)
C3_InvalidKeepsTimer ==
    [][(Flushes /\ Flushed # None /\ ~Flushed[1].is_valid)
       => last_read_at' \in {last_read_at, 0}]_vars

(***************************************************************************)
(* C4: with the heartbeat enabled, inside the loop current_card is         *)
(* non-empty exactly when a valid fragment was processed within            *)
(* heartbeat_interval of the clock.                                        *)
(***************************************************************************)
C4_PresenceTimeBounded ==
    pc = "loop"
    => (card # None <=> (lastValidAt # 0 /\ now - lastValidAt <= heartbeat_interval))

(***************************************************************************)
(* C5: every CardRemoved carries a card, the one of the latest             *)
(* CardInserted before it, with no other CardRemoved in between.           *)
(***************************************************************************)
C5_RemovedOnlyInserted ==
    \A j \in 1..Len(events) :
        IsEvent(j, "removed")
        => /\ events[j].card # None
           /\ \E i \in 1..(j - 1) :
                /\ Adjacent(i, j)
                /\ IsEvent(i, "inserted")
                /\ events[i].card = events[j].card

(***************************************************************************)
(* C6: an iteration that flushes a 12-nibble fragment with a checksum      *)
(* mismatch emits one InvalidCard carrying the decoded record and nothing  *)
(* else, and leaves current_card as it was.                                *)
(***************************************************************************)
C6_InvalidCardEveryTime ==
    [][(Flushes /\ Flushed # None /\ ~Flushed[1].is_valid)
       => /\ events' = Append(events, [type |-> "invalid", card |-> Flushed])
          /\ card' = card]_vars

C6_Witness ==
    \E i \in 1..(Len(events) - 1) :
        IsEvent(i, "invalid") /\ IsEvent(i + 1, "invalid") /\ events[i].card = events[i + 1].card

(***************************************************************************)
(* C7: when a read() call ends, the non-empty results of the earlier calls *)
(* followed by the card it returns are the valid cards of the bytes        *)
(* consumed so far, in arrival order; a call that ends with a card has     *)
(* just consumed the marker that completed it; and no call goes on with a  *)
(* card in hand.                                                           *)
(***************************************************************************)
C7_ReadsAreTheValidCards ==
    /\ (pc = "loop" /\ quit_reader)
         => Flatten(results) \o card = ExpectedCards(data, pos)
    /\ (pc = "loop" /\ quit_reader /\ card # None)
         => (pos > 0 /\ IsMarker(data[pos]) /\ current_fragment = <<>>)
    /\ (pc = "loop" /\ ~quit_reader) => card = None

\* a call timed out and the two calls after it each returned a card
C7_Witness ==
    /\ Len(results) = 3
    /\ results[1] = None
    /\ results[2] # None
    /\ results[3] # None

(***************************************************************************)
(* C8: in a read() call, an iteration that flushes a valid fragment makes  *)
(* it the current card and stops the loop, whatever the previous call      *)
(* returned.                                                               *)
(***************************************************************************)
C8_FirstValidReadWins ==
    [][(Flushes /\ IsValidCard(Flushed)) => (card' = Flushed /\ quit_reader')]_vars

\* two successive calls returned the same card
C8_Witness ==
    \E i \in 1..(Len(results) - 1) : results[i] # None /\ results[i + 1] = results[i]

(***************************************************************************)
(* C9: read() returns None or a record with a matching checksum, and the   *)
(* loop of a call stops only on a flushed valid fragment or past the       *)
(* deadline.                                                               *)
(***************************************************************************)
C9_ReadReturnsValidOrNone ==
    /\ [](\A i \in 1..Len(results) : results[i] = None \/ results[i][1].is_valid)
    /\ [][(pc = "loop" /\ ~quit_reader /\ quit_reader')
          => \/ Flushes /\ IsValidCard(Flushed) /\ card' = Flushed
             \/ successful_read_deadline # 0 /\ now' > successful_read_deadline]_vars

\* a call went on after an invalid-checksum frame and then returned a card
C9_Witness ==
    /\ Len(events) = 2
    /\ IsEvent(1, "invalid")
    /\ IsEvent(2, "inserted")
    /\ results = <<card>>
    /\ card # None

(***************************************************************************)
(* C10: a read(timeout) call with a timeout ends without a card only when  *)
(* the clock has passed call start + timeout.                              *)
(***************************************************************************)
C10_NoEarlyTimeout ==
    (pc = "loop" /\ quit_reader /\ card = None /\ callDeadline # 0) => now > callDeadline

\* a call that consumed bytes timed out, after an earlier call had returned
C10_Witness ==
    /\ pc = "loop" /\ quit_reader /\ card = None /\ callDeadline # 0
    /\ Len(results) >= 1
    /\ current_fragment # <<>>

(***************************************************************************)
(* C11: where every poll advances the clock, a read(timeout) call always   *)
(* returns, and its loop stops in the first iteration that ends past the   *)
(* deadline, whatever the transport delivers.                              *)
(***************************************************************************)
C11_ReadTerminates ==
    /\ [](pc = "loop" => <>(pc = "idle"))
    /\ [][(pc = "loop" /\ ~quit_reader /\ successful_read_deadline # 0
             /\ now' > successful_read_deadline) => quit_reader']_vars

\* a call that met nothing but an invalid frame has timed out
C11_Witness ==
    /\ data = Framed(BadSum)
    /\ pos = Len(data)
    /\ Len(events) = 1 /\ IsEvent(1, "invalid")
    /\ pc = "loop" /\ quit_reader /\ card = None

(***************************************************************************)
(* C12: a stop requested inside an iteration does not cut it short: the    *)
(* iteration still runs its remaining steps (after a fragment's handler    *)
(* the buffer is emptied and the heartbeat check and the tick hook run),   *)
(* and the loop then exits at its condition without another poll.          *)
(***************************************************************************)
C12_StopIsCooperative ==
    /\ []((pc = "loop" /\ quit_reader)
            => /\ stopTrace \in {<<"fragment", "heartbeat", "tick">>,
                                 <<"heartbeat", "tick">>, <<"tick">>}
               /\ (stopTrace[1] = "fragment") => current_fragment = <<>>)
    /\ [][(pc = "loop" /\ quit_reader)
          => (pc' = "idle" /\ pos' = pos /\ now' = now /\ events' = events)]_vars

\* card_inserted has stopped a call while bytes are still waiting
C12_Witness ==
    /\ pc = "loop" /\ quit_reader
    /\ stopTrace = <<"fragment", "heartbeat", "tick">>
    /\ pos < Len(data)

(***************************************************************************)
(* C13: start and end markers are pure separators and are treated alike.   *)
(* A marker that finds a non-empty buffer hands exactly that buffer to the *)
(* decoder once and leaves the buffer empty; a marker that finds it empty  *)
(* emits nothing; no other step reaches the decoder, so a stream without   *)
(* markers produces no event at all; 12 hex digits closed by either marker *)
(* decode even when no start marker came before them.                      *)
(***************************************************************************)
NewEvents == SubSeq(events', Len(events) + 1, Len(events'))

IsFragmentEvent(e) == e.type # "removed"

\* what one pass of a buffer through the decoder emits
Emission(buffer) ==
    LET c == parse_fragment(buffer)
    IN  IF c = None THEN <<>>
        ELSE IF ~c[1].is_valid THEN <<[type |-> "invalid", card |-> c]>>
        ELSE IF c # card THEN <<[type |-> "inserted", card |-> c]>>
        ELSE <<>>

Polls == pc = "loop" /\ ~quit_reader /\ pc' = "loop"

MarkerStep(b) == Polls /\ pos' = pos + 1 /\ data[pos + 1] = b

HasMarker(stream) == \E i \in 1..Len(stream) : IsMarker(stream[i])

C13_MarkersSeparate ==
    /\ [][\A b \in {RFID_STARTCODE, RFID_ENDCODE} :
            MarkerStep(b)
            => /\ current_fragment' = <<>>
               /\ SelectSeq(NewEvents, IsFragmentEvent) =
                      IF Len(current_fragment) > 0
                      THEN Emission(current_fragment) ELSE <<>>
               /\ IsValidCard(Flushed) /\ Len(current_fragment) > 0
                      => card' = Flushed]_vars
    /\ [][(Polls /\ ~(pos' = pos + 1 /\ IsMarker(data[pos + 1])))
            => SelectSeq(NewEvents, IsFragmentEvent) = <<>>]_vars
    /\ [](~HasMarker(data) => events = <<>>)
    /\ []((pos > FragmentLength /\ SubSeq(data, 1, FragmentLength) = Encode(CardA)
             /\ IsMarker(data[FragmentLength + 1]))
            => (events # <<>>
                /\ events[1] = [type |-> "inserted", card |-> parse_fragment(CardA)]))

\* 12 digits with no start marker before them, closed by an end marker
C13_Witness ==
    /\ data = Headless
    /\ pos = Len(data)
    /\ current_fragment = <<>>
    /\ events = <<[type |-> "inserted", card |-> parse_fragment(CardA)]>>

(***************************************************************************)
(* C14: a byte that is neither a marker nor one ASCII hex digit (any byte  *)
(* >= 0x80 included) empties the buffer, emits no event and leaves         *)
(* current_card and last_read_at alone, and the loop goes on (the          *)
(* heartbeat check of the same iteration acts only when it is due).  The   *)
(* frame the byte fell into yields no event, and a well-formed frame       *)
(* after it decodes normally.                                              *)
(***************************************************************************)
GarbageStep ==
    /\ Polls /\ pos' = pos + 1
    /\ ~IsMarker(data[pos + 1])
    /\ HexValue(data[pos + 1]) < 0

HeartbeatDue ==
    /\ heartbeat_interval # 0
    /\ last_read_at # 0
    /\ now' - last_read_at > heartbeat_interval

FragmentEvents == SelectSeq(events, IsFragmentEvent)

C14_GarbageResyncs ==
    /\ [][GarbageStep
            => /\ current_fragment' = <<>>
               /\ SelectSeq(NewEvents, IsFragmentEvent) = <<>>
               /\ ~HeartbeatDue
                    => /\ events' = events
                       /\ card' = card
                       /\ last_read_at' = last_read_at
                       /\ ~quit_reader']_vars
    /\ [](\A next \in {CardA, CardB, BadSum} :
            (data = Garbled \o Framed(next) /\ pos >= Len(Garbled))
            => FragmentEvents = IF pos < Len(data) THEN <<>>
                                ELSE IF IsValidCard(parse_fragment(next))
                                THEN <<[type |-> "inserted", card |-> parse_fragment(next)]>>
                                ELSE <<[type |-> "invalid", card |-> parse_fragment(next)]>>)

\* a card is present when the non-ASCII byte arrives, and the frame after
\* the damaged one is decoded
C14_Witness ==
    /\ data = Framed(CardB) \o Garbled
    /\ pos = Len(Framed(CardB)) + 4
    /\ card = parse_fragment(CardB)
    /\ last_read_at # 0
    /\ current_fragment = <<>>
    /\ events = <<[type |-> "inserted", card |-> parse_fragment(CardB)]>>

(***************************************************************************)
(* C15: a flushed fragment whose length is not 12, shorter or longer (two  *)
(* frames run together after a lost marker, say), decodes to no record:    *)
(* no event is emitted and current_card and last_read_at stay as they      *)
(* were (the heartbeat check of the same iteration acts only when due).    *)
(***************************************************************************)
C15_WrongLengthDropped ==
    /\ [][(Flushes /\ Len(current_fragment) # FragmentLength)
            => /\ Flushed = None
               /\ SelectSeq(NewEvents, IsFragmentEvent) = <<>>
               /\ current_fragment' = <<>>
               /\ ~HeartbeatDue
                    => /\ events' = events
                       /\ card' = card
                       /\ last_read_at' = last_read_at]_vars
    /\ [](\A i \in 0..(2 * FragmentLength) :
            parse_fragment([k \in 1..i |-> CardA[((k - 1) % FragmentLength) + 1]]) # None
                <=> i = FragmentLength)

\* a card is present when 24 digits arrive in one piece
C15_Witness ==
    /\ data = Framed(CardB) \o RunTogether
    /\ pos = Len(data)
    /\ current_fragment = <<>>
    /\ card = parse_fragment(CardB)
    /\ last_read_at # 0
    /\ events = <<[type |-> "inserted", card |-> parse_fragment(CardB)]>>

(***************************************************************************)
(* C16: for every 12-nibble fragment the decoder returns type = nibbles    *)
(* [0,2) and value = nibbles [2,10), big-endian, checksum = nibble 10      *)
(* times 16 plus nibble 11, and is_valid exactly when the XOR of the five  *)
(* bytes of nibbles [0,10) equals that checksum; so a fragment built with  *)
(* the right checksum is valid, and 67003B51C6CB is value 3887558, type    *)
(* 103, checksum 203, valid.                                               *)
(***************************************************************************)
RECURSIVE BigEndian(_, _, _)
BigEndian(fragment, from, to) ==
    IF from > to THEN 0
    ELSE BigEndian(fragment, from, to - 1) * 16 + fragment[to]

PairBytes(fragment) == [j \in 1..5 |-> fragment[2 * j - 1] * 16 + fragment[2 * j]]

C16_Decode ==
    (pc = "decoded" /\ Len(current_fragment) = FragmentLength)
    => /\ card # None
       /\ card[1].type = BigEndian(current_fragment, 1, 2)
       /\ card[1].value = BigEndian(current_fragment, 3, 10)
       /\ card[1].checksum = current_fragment[11] * 16 + current_fragment[12]
       /\ card[1].is_valid <=> XorOfBytes(PairBytes(current_fragment)) = card[1].checksum
       /\ (\E t \in RecordTypes, v \in RecordValues : current_fragment = WireForm(t, v))
            => card[1].is_valid
       /\ current_fragment = CardA
            => card = Some([value |-> 3887558, checksum |-> 203,
                            is_valid |-> TRUE, type |-> 103])

\* a record's wire form, other than the cards of the tests, is decoded
C16_Witness ==
    /\ pc = "decoded"
    /\ current_fragment = WireForm(255, 2147483647)
    /\ card = Some([value |-> 2147483647, checksum |-> 127,
                    is_valid |-> TRUE, type |-> 255])

(***************************************************************************)
(* C17: with the heartbeat enabled, CardRemoved never fires while          *)
(* now - last_read_at <= heartbeat_interval: the comparison is strict.     *)
(* Three identical valid frames back to back inside the interval give      *)
(* exactly one CardInserted and no CardRemoved.                            *)
(***************************************************************************)
Removes == Polls /\ SelectSeq(NewEvents, IsFragmentEvent) # NewEvents

C17_RemovalIsStrict ==
    /\ [][Removes
            => /\ HeartbeatDue
               /\ ~(Flushes /\ Flushed # None)
               /\ card # None => now' - lastValidAt > heartbeat_interval]_vars
    /\ []((data = Triple /\ pos = Len(data) /\ now - 1 <= HeartbeatInterval)
            => events = <<[type |-> "inserted", card |-> parse_fragment(CardA)]>>)

\* the three frames are in, and exactly heartbeat_interval has passed since
\* the last of them
C17_Witness ==
    /\ data = Triple
    /\ pos = Len(data)
    /\ pc = "loop" /\ ~quit_reader
    /\ last_read_at # 0
    /\ now - last_read_at = heartbeat_interval
    /\ card = parse_fragment(CardA)
    /\ events = <<[type |-> "inserted", card |-> parse_fragment(CardA)]>>

(***************************************************************************)
(* C18: with the heartbeat disabled (heartbeat_interval absent, as in      *)
(* Reader) no CardRemoved is ever emitted, and current_card, once set, is  *)
(* never cleared by the tick step, however much time passes and whatever   *)
(* bytes arrive.                                                           *)
(***************************************************************************)
C18_NoRemovalWhenDisabled ==
    /\ [](\A i \in 1..Len(events) : ~IsEvent(i, "removed"))
    /\ [][(pc = "loop" /\ card # None) => card' # None]_vars
    /\ [][(pc = "loop" /\ last_read_at # 0) => last_read_at' # 0]_vars
    /\ []((kind = "base" /\ lastValidAt # 0) => card # None)

\* a card is still present long after its last valid read
C18_Witness ==
    /\ kind = "base"
    /\ pc = "loop"
    /\ card = parse_fragment(CardA)
    /\ pos = Len(data)
    /\ now - last_read_at > HeartbeatInterval
    /\ events = <<[type |-> "inserted", card |-> parse_fragment(CardA)]>>

(***************************************************************************)
(* C19: round trip: a record with an 8-bit type, a 32-bit value and the    *)
(* matching XOR checksum, written as 12 hex digits between START and END   *)
(* and fed through the assembler and the decoder, comes back as the same   *)
(* record (value, type, checksum, is_valid).                               *)
(***************************************************************************)
Record(t, v) ==
    Some([value |-> v, checksum |-> XorOfBytes(TypeBytes(t) \o ValueBytes(v)),
          is_valid |-> TRUE, type |-> t])

IsSome(c) == c # None

CardsRead == SelectSeq(results, IsSome)

C19_RoundTrip ==
    \A t \in RecordTypes, v \in RecordValues :
        data = Framed(WireForm(t, v))
        => /\ pos < Len(data) => (card = None /\ CardsRead = <<>>)
           /\ pos = Len(data)
                => IF CardsRead = <<>>
                   THEN pc = "loop" /\ quit_reader /\ card = Record(t, v)
                   ELSE CardsRead = <<Record(t, v)>>

\* the 14 bytes of a record with letters among its digits have been read
\* and the record returned
C19_Witness ==
    /\ data = Framed(WireForm(255, 305419896))
    /\ Len(data) = FragmentLength + 2
    /\ pos = Len(data)
    /\ results = <<Record(255, 305419896)>>
    /\ results[1][1].checksum = 247

(***************************************************************************)
(* C20: after close() the transport is closed and the stop flag            *)
(* (quit_reader) is set; close() is idempotent: a second call does not     *)
(* close the transport again and leaves the same state.                    *)
(***************************************************************************)
Closes == closeCalls' = closeCalls + 1

C20_CloseIdempotent ==
    /\ [][Closes
            => /\ ~is_open' /\ quit_reader'
               /\ serialCloses' = serialCloses + (IF is_open THEN 1 ELSE 0)
               /\ (~is_open /\ quit_reader)
                    => UNCHANGED <<kind, data, pos, now, pc, quit_reader,
                                   last_read_at, card, current_fragment,
                                   heartbeat_interval, successful_read_deadline,
                                   events, results, is_open, serialCloses>>]_vars
    /\ [](serialCloses <= 1)
    /\ [](closeCalls > 0 => (~is_open /\ serialCloses = 1))

\* close() was called twice in a row after a card was read
C20_Witness ==
    /\ closeCalls = 2
    /\ serialCloses = 1
    /\ ~is_open
    /\ pc = "idle" /\ quit_reader
    /\ results = <<parse_fragment(CardA)>>

(***************************************************************************)
(* C21: when CardRemoved fires, current_card and last_read_at are both     *)
(* empty after the step, so no second CardRemoved follows on later ticks   *)
(* for the same presence period (between two CardRemoved events there is   *)
(* a CardInserted), and a later valid fragment of the same card emits a    *)
(* fresh CardInserted.                                                     *)
(***************************************************************************)
C21_RemovalResets ==
    /\ [][Removes => (card' = None /\ last_read_at' = 0)]_vars
    /\ [](\A i, j \in 1..Len(events) :
            (i < j /\ IsEvent(i, "removed") /\ IsEvent(j, "removed"))
            => \E k \in (i + 1)..(j - 1) : IsEvent(k, "inserted"))
    /\ [][(Flushes /\ IsValidCard(Flushed) /\ card = None)
            => /\ card' = Flushed
               /\ SelectSeq(NewEvents, IsFragmentEvent) =
                      <<[type |-> "inserted", card |-> Flushed]>>]_vars

(***************************************************************************)
(* C22: events come in the arrival order of the completed fragments: the   *)
(* CardInserted/InvalidCard events are an order-preserving image of the    *)
(* flushed fragments, an iteration flushes at most one fragment, and       *)
(* current_card and last_read_at change only once the fragment's validity  *)
(* is known.                                                               *)
(***************************************************************************)
\* The record that ends at position m of a stream: stream[m] is a marker
\* preceded by exactly 12 hex digits.  None when there is none.
RecordAt(stream, m) ==
    IF /\ IsMarker(stream[m])
       /\ m > FragmentLength
       /\ \A i \in (m - FragmentLength)..(m - 1) : HexValue(stream[i]) >= 0
       /\ (m - FragmentLength > 1) => HexValue(stream[m - FragmentLength - 1]) < 0
    THEN <<parse_fragment([i \in 1..FragmentLength |->
                              HexValue(stream[m - FragmentLength - 1 + i])])>>
    ELSE <<>>

\* The records of the first m bytes of a stream, in arrival order.
RECURSIVE ArrivedRecords(_, _)
ArrivedRecords(stream, m) ==
    IF m = 0 THEN <<>> ELSE ArrivedRecords(stream, m - 1) \o RecordAt(stream, m)

RECURSIVE IsSubsequence(_, _)
IsSubsequence(a, b) ==
    IF a = <<>> THEN TRUE
    ELSE IF b = <<>> THEN FALSE
    ELSE IF Head(a) = Head(b) THEN IsSubsequence(Tail(a), Tail(b))
    ELSE IsSubsequence(a, Tail(b))

IsInvalidEvent(e) == e.type = "invalid"
IsInvalidRecord(c) == ~c[1].is_valid
EventCards(evs) == [i \in 1..Len(evs) |-> evs[i].card]

C22_ArrivalOrder ==
    /\ [](LET arrived == ArrivedRecords(data, pos)
          IN  /\ IsSubsequence(EventCards(FragmentEvents), arrived)
              /\ EventCards(SelectSeq(events, IsInvalidEvent))
                     = SelectSeq(arrived, IsInvalidRecord))
    /\ [][/\ SubSeq(events', 1, Len(events)) = events
          /\ Len(SelectSeq(NewEvents, IsFragmentEvent)) <= 1
          /\ pos' \in {pos, pos + 1}]_vars
    /\ [][(Flushes /\ Flushed # None)
            => /\ last_read_at' = now'
               /\ card' = IF Flushed[1].is_valid THEN Flushed ELSE card]_vars

\* a card is current when a packet with a bad checksum arrives
C22_Witness ==
    /\ data = Framed(CardA) \o Framed(BadSum)
    /\ pos = Len(data)
    /\ card = parse_fragment(CardA)
    /\ events = <<[type |-> "inserted", card |-> parse_fragment(CardA)],
                 [type |-> "invalid", card |-> parse_fragment(BadSum)]>>

(***************************************************************************)
(* C23: every loop iteration polls the transport for at most one byte and  *)
(* then runs the heartbeat check and after it the tick hook, once each,    *)
(* whether or not the poll returned a byte; within an iteration a          *)
(* fragment's event comes before any CardRemoved of the heartbeat check.   *)
(***************************************************************************)
IsRemovedEvent(e) == e.type = "removed"

DeadlinePassed ==
    kind = "reader" /\ successful_read_deadline # 0 /\ now' > successful_read_deadline

C23_IterationShape ==
    [][Polls
        => /\ pos' \in {pos, pos + 1}
           /\ Len(SelectSeq(NewEvents, IsRemovedEvent)) <= 1
           /\ NewEvents = SelectSeq(NewEvents, IsFragmentEvent)
                              \o SelectSeq(NewEvents, IsRemovedEvent)
           /\ (Flushes /\ Flushed # None) => SelectSeq(NewEvents, IsRemovedEvent) = <<>>
           /\ (HeartbeatDue /\ ~(Flushes /\ Flushed # None))
                => /\ SelectSeq(NewEvents, IsRemovedEvent)
                          = <<[type |-> "removed", card |-> card]>>
                   /\ card' = None /\ last_read_at' = 0
           /\ DeadlinePassed => quit_reader'
           /\ quit_reader'
                => stopTrace' \in {<<"fragment", "heartbeat", "tick">>,
                                   <<"heartbeat", "tick">>, <<"tick">>}]_vars

\* a card was removed by an iteration whose poll returned no byte: the
\* second packet is still waiting
C23_Witness ==
    /\ kind = "base"
    /\ data = Framed(CardA) \o Framed(CardB)
    /\ pos = Len(Framed(CardA))
    /\ card = None /\ last_read_at = 0
    /\ stopTrace = <<"heartbeat", "tick">>
    /\ events = <<[type |-> "inserted", card |-> parse_fragment(CardA)],
                 [type |-> "removed", card |-> parse_fragment(CardA)]>>

(***************************************************************************)
(* C24: a valid fragment of another card B arriving while card A is        *)
(* current makes B the current card and emits CardInserted(B) with no      *)
(* CardRemoved(A): a replaced card never gets a removal event (a           *)
(* CardRemoved that carries a card carries the one inserted last), so      *)
(* insertions and removals do not strictly alternate.                      *)
(***************************************************************************)
C24_ReplacedWithoutRemoval ==
    /\ [][(Flushes /\ IsValidCard(Flushed) /\ card # None /\ Flushed # card)
            => /\ card' = Flushed
               /\ NewEvents = <<[type |-> "inserted", card |-> Flushed]>>]_vars
    /\ [](\A j \in 1..Len(events) :
            (IsEvent(j, "removed") /\ events[j].card # None)
            => \E i \in 1..(j - 1) :
                /\ IsEvent(i, "inserted")
                /\ events[i].card = events[j].card
                /\ \A k \in (i + 1)..(j - 1) : ~IsEvent(k, "inserted"))

\* card B took card A's place and was later removed: two insertions in a
\* row, one removal
C24_Witness ==
    /\ data = Framed(CardA) \o Framed(CardB)
    /\ pos = Len(data)
    /\ events = <<[type |-> "inserted", card |-> parse_fragment(CardA)],
                 [type |-> "inserted", card |-> parse_fragment(CardB)],
                 [type |-> "removed", card |-> parse_fragment(CardB)]>>

(***************************************************************************)
(* C25: the poll loop clears the stop flag on entry: a stop() or close()   *)
(* issued before start() or read() is entered is not observed, the loop    *)
(* runs and polls the transport (the closed one, after close()) until a    *)
(* new stop condition arises.                                              *)
(***************************************************************************)
C25_StopFlagClearedOnEntry ==
    /\ [][(pc = "idle" /\ pc' = "loop") => ~quit_reader']_vars
    /\ [][(pc = "loop" /\ ~quit_reader /\ quit_reader')
            => \/ kind = "base" /\ SelectSeq(NewEvents, IsRemovedEvent) # <<>>
               \/ kind = "reader" /\ Flushes /\ IsValidCard(Flushed)
               \/ DeadlinePassed]_vars
    /\ [][Polls => UNCHANGED <<is_open, serialCloses, closeCalls>>]_vars

\* close() came before the first start(), and the loop has since read the
\* whole stream from the closed port
C25_Witness ==
    /\ kind = "base"
    /\ closeCalls = 1 /\ ~is_open
    /\ pc = "loop" /\ ~quit_reader
    /\ data = Framed(CardA)
    /\ pos = Len(data)
    /\ events = <<[type |-> "inserted", card |-> parse_fragment(CardA)]>>

====
